---- MODULE Spec2Model ----
(***************************************************************************)
(* The trace reader of turbopack-trace-server (reader.rs): the run /       *)
(* try_read loop of TraceReader, the process function that maps decoded    *)
(* TraceRow records onto the span store, and ReaderState.                  *)
(*                                                                         *)
(* The store (store.rs), the store container (store_container.rs) and the  *)
(* row type (turbopack_trace_utils) are used by reader.rs but are not part *)
(* of the sources at hand; they are modelled from the design document.     *)
(* The payload fields of a row (name, target, values) are only copied into *)
(* the store and are left out of the rows of this model, and so is         *)
(* total_rows, which try_read adds to and never reads.                     *)
(***************************************************************************)
EXTENDS Integers, Sequences, FiniteSets, TLC

VARIABLES
    \* ---- TraceReader::run / try_read (reader thread) ----
    pc,                 \* position of the reader thread
    file,               \* bytes of the trace file on disk
    fpos,               \* read offset of the open file handle
    buffer,             \* try_read: buffer
    index,              \* try_read: index
    capacity,           \* buffer.capacity()
    rows,               \* try_read: rows decoded and not yet processed
    log,                \* number of "error: ..." lines printed
    \* ---- ReaderState ----
    active_ids,
    queued_rows,
    outdated_spans,
    thread_stacks,
    self_time_started,
    \* ---- span store and its container ----
    spans,              \* the spans of the store, indexed by internal id
    stale,              \* spans whose cached aggregates are out of date
    generation,         \* generation counter of the container
    writer,             \* TRUE while the exclusive write guard is held
    readers,            \* viewers holding a shared read guard
    \* ---- history (not program state) ----
    now,                \* timestamp the producer stamps on the next record
    thread_of,          \* per span: the thread of each self-time interval
    first_enter,        \* (span, thread) -> ts of the first applied Enter
    last_exit,          \* (span, thread) -> ts of the last Exit that left the stack
    retired,            \* external id -> spans it denoted until an End
    committed,          \* store contents when the write guard was last released
    held_rows,          \* rows processed since the write guard was taken
    gen_at_error,       \* generation when the last read error was returned
    tops,               \* while the stream is properly nested: who was on top, when
    trace,              \* rows try_read has handed to process() in this session
    first_pass          \* file and store when the last read error was returned

vars == <<pc, file, fpos, buffer, index, capacity, rows, log,
          active_ids, queued_rows, outdated_spans, thread_stacks,
          self_time_started, spans, stale, generation, writer, readers,
          now, thread_of, first_enter, last_exit, retired, committed,
          held_rows, gen_at_error, tops, trace, first_pass>>

readerVars == <<pc, file, fpos, buffer, index, capacity, rows, log>>
lockVars == <<generation, writer, readers, committed, held_rows, gen_at_error, first_pass>>

----------------------------------------------------------------------------
(* Bounds of the model *)

MaxRows == 3

Ids == {1, 2}
Threads == {1, 2}

NoParent == 0       \* Option::None of a parent id
NoSpan == 0         \* Option::None of a SpanId

----------------------------------------------------------------------------
(* Maps with a key set that changes (HashMap) *)

EmptyMap == [k \in {} |-> 0]

Insert(m, k, v) == [x \in DOMAIN m \cup {k} |-> IF x = k THEN v ELSE m[x]]

Remove(m, k) == [x \in DOMAIN m \ {k} |-> m[x]]

Last(s) == s[Len(s)]

RemoveAt_Truncates(s, i) == SubSeq(s, 1, i - 1)

RemoveAt(s, i) == [j \in 1..(Len(s) - 1) |-> IF j < i THEN s[j] ELSE s[j + 1]]

----------------------------------------------------------------------------
(* TraceRow *)

Row(kind, ts, id, parent, thread_id) ==
    [kind |-> kind, ts |-> ts, id |-> id, parent |-> parent, thread_id |-> thread_id]

StartRow(ts, id, parent) == Row("Start", ts, id, parent, 0)
EndRow(ts, id) == Row("End", ts, id, NoParent, 0)
EnterRow(ts, id, thread_id) == Row("Enter", ts, id, NoParent, thread_id)
ExitRow(ts, id, thread_id) == Row("Exit", ts, id, NoParent, thread_id)
EventRow(ts, parent) == Row("Event", ts, 0, parent, 0)

----------------------------------------------------------------------------
(* The state process() works on: the store behind the write guard and the  *)
(* ReaderState, with the history that follows them.                        *)

State ==
    [spans |-> spans, stale |-> stale,
     active_ids |-> active_ids, queued_rows |-> queued_rows,
     outdated_spans |-> outdated_spans, thread_stacks |-> thread_stacks,
     self_time_started |-> self_time_started,
     thread_of |-> thread_of, first_enter |-> first_enter,
     last_exit |-> last_exit, retired |-> retired,
     tops |-> tops, trace |-> trace]

\* no Enter or Exit yet: the stream is properly nested, nothing is on top
NoTops == [nested |-> TRUE, since |-> EmptyMap, periods |-> EmptyMap,
           open |-> [t \in Threads |-> 0]]

\* no read error yet
NoPass == [consumed |-> -1, spans |-> <<>>]

\* ReaderState::default() and an empty store
DefaultState ==
    [spans |-> <<>>, stale |-> {},
     active_ids |-> EmptyMap, queued_rows |-> EmptyMap,
     outdated_spans |-> {}, thread_stacks |-> EmptyMap,
     self_time_started |-> EmptyMap,
     thread_of |-> <<>>, first_enter |-> EmptyMap,
     last_exit |-> EmptyMap, retired |-> [x \in Ids |-> {}],
     tops |-> NoTops, trace |-> <<>>]

\* Store::add_span: a new span with the next dense id; the parent is outdated
add_span(st, parent, ts) ==
    [st EXCEPT !.spans = Append(@, [parent |-> parent, start |-> ts, self_time |-> <<>>]),
               !.thread_of = Append(@, <<>>),
               !.stale = IF parent # NoSpan THEN @ \cup {parent} ELSE @,
               !.outdated_spans = IF parent # NoSpan THEN @ \cup {parent} ELSE @]

\* Store::add_self_time: the interval is appended and the span is outdated
add_self_time(st, id, start, end, thread_id) ==
    [st EXCEPT !.spans[id].self_time = Append(@, <<start, end>>),
               !.thread_of[id] = Append(@, thread_id),
               !.stale = @ \cup {id},
               !.outdated_spans = @ \cup {id}]

\* the queue of the key replaced by the one row
Defer_Overwrites(st, key, row) ==
    [st EXCEPT !.queued_rows = Insert(@, key, <<row>>)]

\* queued_rows.entry(key).or_default().push(row)
Defer(st, key, row) ==
    [st EXCEPT !.queued_rows =
        Insert(@, key, IF key \in DOMAIN @ THEN Append(@[key], row) ELSE <<row>>)]

\* self_time_started.remove(&key), with the entry left in the map
TakeStarted_Kept(started, key) == started

\* self_time_started.remove(&key): the map without the entry
TakeStarted(started, key) == Remove(started, key)

\* thread_stacks.entry(thread_id).or_default()
StackEntry(st, thread_id) ==
    IF thread_id \in DOMAIN st.thread_stacks THEN st
    ELSE [st EXCEPT !.thread_stacks = Insert(@, thread_id, <<>>)]

\* the top of the stack taken when the id is not on the stack
TopmostPosition_OrTop(stack, id) ==
    IF \E i \in 1..Len(stack) : stack[i] = id
    THEN CHOOSE i \in 1..Len(stack) :
            stack[i] = id /\ \A j \in (i + 1)..Len(stack) : stack[j] # id
    ELSE Len(stack)

\* stack.iter().rev().position(|&x| x == id), as the index from the bottom
\* (1-based) of the topmost occurrence, 0 when there is none
TopmostPosition(stack, id) ==
    IF \E i \in 1..Len(stack) : stack[i] = id
    THEN CHOOSE i \in 1..Len(stack) :
            stack[i] = id /\ \A j \in (i + 1)..Len(stack) : stack[j] # id
    ELSE 0

ProcessStart(st, row) ==
    IF row.parent # NoParent /\ row.parent \notin DOMAIN st.active_ids
    THEN Defer(st, row.parent, row)
    ELSE LET parent == IF row.parent # NoParent THEN st.active_ids[row.parent] ELSE NoSpan
             st1 == add_span(st, parent, row.ts)
             span_id == Len(st1.spans)
         IN [st1 EXCEPT !.active_ids = Insert(@, row.id, span_id)]

\* an End that leaves the external id in active_ids
ProcessEnd_KeepsId(st, row) ==
    [st EXCEPT !.retired[row.id] =
                   IF row.id \in DOMAIN st.active_ids
                   THEN @ \cup {st.active_ids[row.id]} ELSE @]

ProcessEnd(st, row) ==
    [st EXCEPT !.active_ids = Remove(@, row.id),
               !.retired[row.id] =
                   IF row.id \in DOMAIN st.active_ids
                   THEN @ \cup {st.active_ids[row.id]} ELSE @]

ProcessEnter(st, row) ==
    IF row.id \notin DOMAIN st.active_ids
    THEN Defer(st, row.id, row)
    ELSE LET id == st.active_ids[row.id]
             t == row.thread_id
             st1 == StackEntry(st, t)
             stack == st1.thread_stacks[t]
             st2 == IF stack # <<>> /\ <<Last(stack), t>> \in DOMAIN st1.self_time_started
                    THEN add_self_time(
                            [st1 EXCEPT !.self_time_started = TakeStarted(@, <<Last(stack), t>>)],
                            Last(stack), st1.self_time_started[<<Last(stack), t>>],
                            row.ts, t)
                    ELSE st1
         IN [st2 EXCEPT !.thread_stacks[t] = Append(stack, id),
                        !.self_time_started = Insert(@, <<id, t>>, row.ts),
                        !.first_enter = IF <<id, t>> \in DOMAIN @ THEN @
                                        ELSE Insert(@, <<id, t>>, row.ts)]

\* the parent whose self-time an Exit resumes: the frame below the removed one
\* the frame at the bottom of the stack resumed
ResumedFrame_Bottom(stack, stack_index) == stack[1]

ResumedFrame(stack, stack_index) == stack[stack_index - 1]

ProcessExit(st, row) ==
    IF row.id \notin DOMAIN st.active_ids
    THEN Defer(st, row.id, row)
    ELSE LET id == st.active_ids[row.id]
             t == row.thread_id
             st1 == StackEntry(st, t)
             stack == st1.thread_stacks[t]
             stack_index == TopmostPosition(stack, id)
             st2 == IF stack_index # 0
                    THEN [st1 EXCEPT
                            !.thread_stacks[t] = RemoveAt(stack, stack_index),
                            !.self_time_started =
                                IF stack_index > 1
                                THEN Insert(@, <<ResumedFrame(stack, stack_index), t>>, row.ts)
                                ELSE @]
                    ELSE st1
             st3 == IF <<id, t>> \in DOMAIN st2.self_time_started
                    THEN add_self_time(
                            [st2 EXCEPT !.self_time_started = TakeStarted(@, <<id, t>>)],
                            id, st2.self_time_started[<<id, t>>], row.ts, t)
                    ELSE st2
         IN [st3 EXCEPT !.last_exit = IF stack_index # 0
                                      THEN Insert(@, <<id, t>>, row.ts) ELSE @]

ProcessEvent(st, row) ==
    IF row.parent # NoParent /\ row.parent \notin DOMAIN st.active_ids
    THEN Defer(st, row.parent, row)
    ELSE st

process(st, row) ==
    CASE row.kind = "Start" -> ProcessStart(st, row)
      [] row.kind = "End"   -> ProcessEnd(st, row)
      [] row.kind = "Enter" -> ProcessEnter(st, row)
      [] row.kind = "Exit"  -> ProcessExit(st, row)
      [] row.kind = "Event" -> ProcessEvent(st, row)

\* the stack of a thread, empty when the thread has no entry
StackOf(st, t) == IF t \in DOMAIN st.thread_stacks THEN st.thread_stacks[t] ELSE <<>>

OnStack(st, s, t) == \E i \in 1..Len(StackOf(st, t)) : StackOf(st, t)[i] = s

\* the top of a thread's stack, NoSpan when the stack is empty
TopOf(st, t) == IF StackOf(st, t) = <<>> THEN NoSpan ELSE Last(StackOf(st, t))

\* an Enter for a live span that is not on the thread's stack, an Exit for
\* the span on top of the thread's stack
ProperlyNested(st, row) ==
    /\ row.id \in DOMAIN st.active_ids
    /\ IF row.kind = "Enter"
       THEN ~OnStack(st, st.active_ids[row.id], row.thread_id)
       ELSE TopOf(st, row.thread_id) = st.active_ids[row.id]

\* the stream is not properly nested: nothing is recorded any more
NotNested == [nested |-> FALSE, since |-> EmptyMap, periods |-> EmptyMap,
              open |-> [t \in Threads |-> 0]]

\* the periods a span was on top of a thread's stack, read off the stacks
\* before and after a record: when the top changes at row.ts, the period of
\* the old top ends and the period of the new top begins; open counts the
\* Enters of a thread that no Exit has matched yet
Observed(tp, before, after, row) ==
    IF ~tp.nested \/ row.kind \notin {"Enter", "Exit"} THEN tp
    ELSE IF ~ProperlyNested(before, row) THEN NotNested
    ELSE LET t == row.thread_id
             old == TopOf(before, t)
             new == TopOf(after, t)
             sofar == IF old \in DOMAIN tp.periods THEN tp.periods[old] ELSE <<>>
             entered == IF row.kind = "Enter" THEN tp.open[t] + 1 ELSE tp.open[t] - 1
         IN IF StackOf(before, t) = StackOf(after, t)
            THEN [tp EXCEPT !.open[t] = entered]
            ELSE [nested |-> TRUE,
                  open |-> [tp.open EXCEPT ![t] = entered],
                  since |-> IF new = NoSpan THEN Remove(tp.since, t)
                            ELSE Insert(tp.since, t, row.ts),
                  periods |-> IF old = NoSpan THEN tp.periods
                              ELSE Insert(tp.periods, old,
                                          Append(sofar, <<tp.since[t], row.ts, t>>))]

\* process() on one row, with the history of who was on top
Step(st, row) ==
    LET after == process(st, row)
    IN [after EXCEPT !.tops = Observed(st.tops, st, after, row)]

----------------------------------------------------------------------------
(* Assignment of a state of process() to the variables *)

StartsIn(st) ==
    /\ spans = st.spans
    /\ stale = st.stale
    /\ active_ids = st.active_ids
    /\ queued_rows = st.queued_rows
    /\ outdated_spans = st.outdated_spans
    /\ thread_stacks = st.thread_stacks
    /\ self_time_started = st.self_time_started
    /\ thread_of = st.thread_of
    /\ first_enter = st.first_enter
    /\ last_exit = st.last_exit
    /\ retired = st.retired
    /\ tops = st.tops
    /\ trace = st.trace

SetState(st) ==
    /\ spans' = st.spans
    /\ stale' = st.stale
    /\ active_ids' = st.active_ids
    /\ queued_rows' = st.queued_rows
    /\ outdated_spans' = st.outdated_spans
    /\ thread_stacks' = st.thread_stacks
    /\ self_time_started' = st.self_time_started
    /\ thread_of' = st.thread_of
    /\ first_enter' = st.first_enter
    /\ last_exit' = st.last_exit
    /\ retired' = st.retired
    /\ tops' = st.tops
    /\ trace' = st.trace

----------------------------------------------------------------------------
(* SpecProcess: process() applied to one record after another, under one   *)
(* hold of the write guard.  The records carry the producer's clock, which *)
(* never runs backwards: an Enter or Exit is stamped now or now + 1, the    *)
(* other records (whose timestamps process() only copies or ignores) now.  *)
(*                                                                         *)
(* A behaviour starts in the state process() reaches from                  *)
(* ReaderState::default() and an empty store on a prefix of NestedRows (a  *)
(* span entered on a thread and a child span entered on top of it), and    *)
(* goes on with up to MaxRows arbitrary records.                           *)

NestedRows ==
    <<StartRow(0, 1, NoParent), EnterRow(1, 1, 1), StartRow(2, 2, 1), EnterRow(3, 2, 1)>>

RECURSIVE Run(_, _)
Run(st, rs) == IF rs = <<>> THEN st ELSE Run(Step(st, Head(rs)), Tail(rs))

InitProcess ==
    /\ pc = "process"
    /\ file = <<>> /\ fpos = 0
    /\ buffer = <<>> /\ index = 0 /\ capacity = 0
    /\ rows = <<>> /\ log = 0
    /\ generation = 0 /\ writer = TRUE /\ readers = 0
    /\ committed = <<>> /\ held_rows = 0 /\ gen_at_error = -1
    /\ first_pass = NoPass
    /\ \E n \in 0..Len(NestedRows) :
        /\ StartsIn(Run(DefaultState, SubSeq(NestedRows, 1, n)))
        /\ now = IF n = 0 THEN 0 ELSE NestedRows[n].ts

Apply(row) ==
    /\ held_rows < MaxRows
    /\ SetState(Step(State, row))
    /\ held_rows' = held_rows + 1
    /\ now' = row.ts
    /\ UNCHANGED <<readerVars, generation, writer, readers, committed, gen_at_error,
                   first_pass>>

ApplyStart == \E id \in Ids, parent \in Ids \cup {NoParent} : Apply(StartRow(now, id, parent))

ApplyEnd == \E id \in Ids : Apply(EndRow(now, id))

ApplyEnter == \E ts \in {now, now + 1}, id \in Ids, t \in Threads : Apply(EnterRow(ts, id, t))

ApplyExit == \E ts \in {now, now + 1}, id \in Ids, t \in Threads : Apply(ExitRow(ts, id, t))

ApplyEvent == \E parent \in Ids \cup {NoParent} : Apply(EventRow(now, parent))

NextProcess == ApplyStart \/ ApplyEnd \/ ApplyEnter \/ ApplyExit \/ ApplyEvent

SpecProcess == InitProcess /\ [][NextProcess]_vars

----------------------------------------------------------------------------
(* The encoding of the rows in the trace file (postcard): the variant      *)
(* index, then the fields in order; an integer below 128 is one byte, an   *)
(* Option is a byte 0, or a byte 1 and the value.                          *)

EncodeOption(v) == IF v = NoParent THEN <<0>> ELSE <<1, v>>

Encode(row) ==
    CASE row.kind = "Start" -> <<0, row.ts, row.id>> \o EncodeOption(row.parent)
      [] row.kind = "End"   -> <<1, row.ts, row.id>>
      [] row.kind = "Enter" -> <<2, row.ts, row.id, row.thread_id>>
      [] row.kind = "Exit"  -> <<3, row.ts, row.id, row.thread_id>>
      [] row.kind = "Event" -> <<4, row.ts>> \o EncodeOption(row.parent)

UnexpectedEnd == [err |-> "DeserializeUnexpectedEnd"]
Malformed == [err |-> "Malformed"]
Taken(row, used) == [err |-> "none", row |-> row, used |-> used]

\* an Option<u64> at bytes[i..]: <<value, bytes used>>, or the error
TakeOption(bytes, i) ==
    IF Len(bytes) < i THEN UnexpectedEnd
    ELSE IF bytes[i] = 0 THEN [err |-> "none", value |-> NoParent, used |-> 1]
    ELSE IF bytes[i] = 1
         THEN IF Len(bytes) < i + 1 THEN UnexpectedEnd
              ELSE [err |-> "none", value |-> bytes[i + 1], used |-> 2]
    ELSE Malformed

\* postcard::take_from_bytes::<TraceRow>(bytes): the first row of bytes and
\* the number of bytes it takes, or the error
take_from_bytes(bytes) ==
    IF bytes = <<>> THEN UnexpectedEnd
    ELSE LET tag == bytes[1] IN
         IF tag > 4 THEN Malformed
         ELSE IF tag = 1
              THEN IF Len(bytes) < 3 THEN UnexpectedEnd
                   ELSE Taken(EndRow(bytes[2], bytes[3]), 3)
         ELSE IF tag = 2
              THEN IF Len(bytes) < 4 THEN UnexpectedEnd
                   ELSE Taken(EnterRow(bytes[2], bytes[3], bytes[4]), 4)
         ELSE IF tag = 3
              THEN IF Len(bytes) < 4 THEN UnexpectedEnd
                   ELSE Taken(ExitRow(bytes[2], bytes[3], bytes[4]), 4)
         ELSE IF tag = 0
              THEN IF Len(bytes) < 3 THEN UnexpectedEnd
                   ELSE LET p == TakeOption(bytes, 4) IN
                        IF p.err # "none" THEN p
                        ELSE Taken(StartRow(bytes[2], bytes[3], p.value), 3 + p.used)
         ELSE IF Len(bytes) < 2 THEN UnexpectedEnd
              ELSE LET p == TakeOption(bytes, 3) IN
                   IF p.err # "none" THEN p
                   ELSE Taken(EventRow(bytes[2], p.value), 2 + p.used)

----------------------------------------------------------------------------
(* Spec: the reader thread (run and try_read), the producer that appends   *)
(* to the trace file, and the viewers that take read guards on the store.  *)

\* scaled: the source reads chunks of 1024 * 1024 bytes and names a limit of
\* 100 * 1024 rows; as there, a chunk can hold more rows than the limit
CHUNK_SIZE == 16
MAX_ROWS_PER_LOCK == 2

MaxViewers == 1
MaxGeneration == 1
MaxLog == 1

\* what the producer writes: a span entered on thread 1, a child span
\* entered on top of it, and their exits
ProducerRows == NestedRows \o <<ExitRow(4, 2, 1), ExitRow(5, 1, 1)>>

\* a byte that is no variant index of TraceRow
BadTag == 9

Corrupted(bytes) == \E i \in 1..Len(bytes) : bytes[i] = BadTag

Max(a, b) == IF a >= b THEN a ELSE b
Min(a, b) == IF a <= b THEN a ELSE b

\* Vec::extend_from_slice: the capacity after growing to hold `needed` bytes
\* (amortized doubling, at least 8 for a Vec<u8>)
GrowAmortized(cap, needed) ==
    IF needed <= cap THEN cap ELSE Max(Max(2 * cap, needed), 8)

\* the write guard dropped after each row
GuardAfterRow_Dropped == FALSE

\* the write guard taken at `let mut store = self.store.write()` lives to
\* the end of the block: it is still held after a row has been processed
GuardAfterRow == TRUE

\* outdated_spans left as it is
ClearOutdated_Kept(set) == set

\* reader_state.outdated_spans.clear()
ClearOutdated(set) == {}

\* Store::invalidate_outdated_spans: the aggregates of the given spans are
\* recomputed
invalidate_outdated_spans(st, set) == [st EXCEPT !.stale = @ \ set]

\* Store::reset: all spans are discarded
reset(st) == [st EXCEPT !.spans = <<>>, !.stale = {}, !.thread_of = <<>>]

\* the ReaderState of the last session kept
FreshReaderState_Stale(st) == st

\* ReaderState::default() next to the store as it is
FreshReaderState(st) ==
    [DefaultState EXCEPT !.spans = st.spans, !.stale = st.stale, !.thread_of = st.thread_of]

\* the file handle kept where the last session left it
OpenedAt_Kept == fpos

\* File::open: a new handle reads the file from its first byte
OpenedAt == 0

\* the consumed bytes left in the buffer
Compacted_KeepsAll(buf, idx) == buf

\* buffer.splice(..index, empty()): the bytes before index are removed
Compacted(buf, idx) == SubSeq(buf, idx + 1, Len(buf))

\* the bytes of the file that try_read has turned into rows
Consumed == fpos - (Len(buffer) - index)

Init ==
    /\ pc = "open"
    /\ file = <<>> /\ fpos = 0
    /\ buffer = <<>> /\ index = 0 /\ capacity = 0
    /\ rows = <<>> /\ log = 0
    /\ StartsIn(DefaultState)
    /\ generation = 0 /\ writer = FALSE /\ readers = 0
    /\ now = 0
    /\ committed = <<>> /\ held_rows = 0 /\ gen_at_error = -1
    /\ first_pass = NoPass

processVars == <<spans, stale, active_ids, queued_rows, outdated_spans, thread_stacks,
                 self_time_started, thread_of, first_enter, last_exit, retired,
                 tops, trace>>

\* the producer appends the next row of its stream
WriterAppend ==
    /\ now < Len(ProducerRows)
    /\ file' = file \o Encode(ProducerRows[now + 1])
    /\ now' = now + 1
    /\ UNCHANGED <<pc, fpos, buffer, index, capacity, rows, log, processVars, lockVars>>

\* the file gets a byte that starts no row
WriterCorrupt ==
    /\ ~Corrupted(file)
    /\ file' = Append(file, BadTag)
    /\ UNCHANGED <<pc, fpos, buffer, index, capacity, rows, log, now, processVars, lockVars>>

\* a failed open that resets the store
OpenFails_Resets ==
    /\ pc = "open"
    /\ pc' = "sleep"
    /\ SetState(reset(State))
    /\ generation' = generation + 1
    /\ UNCHANGED <<file, fpos, buffer, index, capacity, rows, log, now,
                   writer, readers, committed, held_rows, gen_at_error, first_pass>>

\* try_read: File::open fails, try_read returns false
OpenFails ==
    /\ pc = "open"
    /\ pc' = "sleep"
    /\ UNCHANGED <<file, fpos, buffer, index, capacity, rows, log, now, processVars, lockVars>>

\* try_read: File::open succeeds; a new ReaderState and an empty buffer
OpenFile ==
    /\ pc = "open"
    /\ pc' = "read"
    /\ fpos' = OpenedAt
    /\ buffer' = <<>> /\ index' = 0 /\ capacity' = 0
    /\ rows' = <<>>
    /\ SetState(FreshReaderState(State))
    /\ UNCHANGED <<file, log, now, lockVars>>

\* file.read returns Ok(0): sleep 100 ms and read again
ReadNothing ==
    /\ pc = "read"
    /\ fpos = Len(file)
    /\ pc' = "wait"
    /\ UNCHANGED <<file, fpos, buffer, index, capacity, rows, log, now, processVars, lockVars>>

Waited ==
    /\ pc = "wait"
    /\ pc' = "read"
    /\ UNCHANGED <<file, fpos, buffer, index, capacity, rows, log, now, processVars, lockVars>>

\* file.read returns Ok(bytes_read): compact the buffer if need be, append
\* the chunk
ReadChunk ==
    /\ pc = "read"
    /\ \E bytes_read \in 1..Min(CHUNK_SIZE, Len(file) - fpos) :
        LET compact == index > 0 /\ Len(buffer) + bytes_read > capacity
            kept == IF compact THEN Compacted(buffer, index) ELSE buffer
        IN /\ buffer' = kept \o SubSeq(file, fpos + 1, fpos + bytes_read)
           /\ index' = IF compact THEN 0 ELSE index
           /\ capacity' = GrowAmortized(capacity, Len(kept) + bytes_read)
           /\ fpos' = fpos + bytes_read
    /\ rows' = <<>>
    /\ pc' = "decode"
    /\ UNCHANGED <<file, log, now, processVars, lockVars>>

\* file.read returns Err
ReadError ==
    /\ pc = "read"
    /\ generation < MaxGeneration
    /\ pc' = "reset"
    /\ gen_at_error' = generation
    /\ first_pass' = [consumed |-> Consumed, spans |-> spans]
    /\ UNCHANGED <<file, fpos, buffer, index, capacity, rows, log, now, processVars,
                   generation, writer, readers, committed, held_rows>>

\* the decode loop: take_from_bytes returns a row
DecodeRow ==
    /\ pc = "decode"
    /\ LET r == take_from_bytes(SubSeq(buffer, index + 1, Len(buffer)))
       IN /\ r.err = "none"
          /\ index' = index + r.used
          /\ rows' = Append(rows, r.row)
    /\ UNCHANGED <<pc, file, fpos, buffer, capacity, log, now, processVars, lockVars>>

\* the decode loop: DeserializeUnexpectedEnd breaks out of the loop
DecodeEnd ==
    /\ pc = "decode"
    /\ take_from_bytes(SubSeq(buffer, index + 1, Len(buffer))).err = "DeserializeUnexpectedEnd"
    /\ pc' = IF rows = <<>> THEN "read" ELSE "lock"
    /\ UNCHANGED <<file, fpos, buffer, index, capacity, rows, log, now, processVars, lockVars>>

\* the decode loop: any other error is printed and the loop goes on
DecodeError ==
    /\ pc = "decode"
    /\ take_from_bytes(SubSeq(buffer, index + 1, Len(buffer))).err = "Malformed"
    /\ log < MaxLog
    /\ log' = log + 1
    /\ UNCHANGED <<pc, file, fpos, buffer, index, capacity, rows, now, processVars, lockVars>>

\* self.store.write(): waits until no guard is held
AcquireWrite ==
    /\ pc = "lock"
    /\ ~writer /\ readers = 0
    /\ writer' = TRUE
    /\ held_rows' = 0
    /\ pc' = "process"
    /\ UNCHANGED <<file, fpos, buffer, index, capacity, rows, log, now, processVars,
                   generation, readers, committed, gen_at_error, first_pass>>

\* for row in rows { process(&mut store, &mut reader_state, row) }
ProcessRow ==
    /\ pc = "process"
    /\ rows # <<>>
    /\ SetState([Step(State, Head(rows)) EXCEPT !.trace = Append(@, Head(rows))])
    /\ rows' = Tail(rows)
    /\ held_rows' = held_rows + 1
    /\ writer' = GuardAfterRow
    /\ UNCHANGED <<pc, file, fpos, buffer, index, capacity, log, now,
                   generation, readers, committed, gen_at_error, first_pass>>

\* store.invalidate_outdated_spans(..); outdated_spans.clear(); the guard is
\* dropped
FinishBatch ==
    /\ pc = "process"
    /\ rows = <<>>
    /\ LET st == invalidate_outdated_spans(State, outdated_spans)
       IN SetState([st EXCEPT !.outdated_spans = ClearOutdated(outdated_spans)])
    /\ writer' = FALSE
    /\ committed' = spans
    /\ pc' = "read"
    /\ UNCHANGED <<file, fpos, buffer, index, capacity, rows, log, now,
                   generation, readers, held_rows, gen_at_error, first_pass>>

\* try_read, on the read error: self.store.write(), store.reset(), return
\* true (reader_state is dropped)
ResetInTryRead ==
    /\ pc = "reset"
    /\ ~writer /\ readers = 0
    /\ SetState(FreshReaderState(reset(State)))
    /\ generation' = generation + 1
    /\ committed' = <<>>
    /\ pc' = "reset_run"
    /\ UNCHANGED <<file, fpos, buffer, index, capacity, rows, log, now,
                   writer, readers, held_rows, gen_at_error, first_pass>>

\* run, when try_read returned true: self.store.write().reset()
ResetInRun ==
    /\ pc = "reset_run"
    /\ ~writer /\ readers = 0
    /\ SetState(reset(State))
    /\ generation' = generation + 1
    /\ committed' = <<>>
    /\ pc' = "sleep"
    /\ UNCHANGED <<file, fpos, buffer, index, capacity, rows, log, now,
                   writer, readers, held_rows, gen_at_error, first_pass>>

\* run: thread::sleep(500 ms), then the next turn of the loop
Sleep ==
    /\ pc = "sleep"
    /\ pc' = "open"
    /\ UNCHANGED <<file, fpos, buffer, index, capacity, rows, log, now, processVars, lockVars>>

\* a viewer takes a read guard
AcquireRead ==
    /\ ~writer
    /\ readers < MaxViewers
    /\ readers' = readers + 1
    /\ UNCHANGED <<readerVars, now, processVars, generation, writer, committed,
                   held_rows, gen_at_error, first_pass>>

\* a viewer drops its read guard
ReleaseRead ==
    /\ readers > 0
    /\ readers' = readers - 1
    /\ UNCHANGED <<readerVars, now, processVars, generation, writer, committed,
                   held_rows, gen_at_error, first_pass>>

Next ==
    \/ WriterAppend \/ WriterCorrupt
    \/ OpenFails \/ OpenFile
    \/ ReadNothing \/ Waited \/ ReadChunk \/ ReadError
    \/ DecodeRow \/ DecodeEnd \/ DecodeError
    \/ AcquireWrite \/ ProcessRow \/ FinishBatch
    \/ ResetInTryRead \/ ResetInRun \/ Sleep
    \/ AcquireRead \/ ReleaseRead

Spec == Init /\ [][Next]_vars

\* The reader thread is never stopped: run sleeps its 500 ms and goes on
\* with the next turn of the loop.  The file can be opened: an open that is
\* tried again and again fails only finitely often in a row.
SpecLive == Spec /\ WF_vars(Sleep) /\ SF_vars(OpenFile)

----------------------------------------------------------------------------
(* Properties of process(), checked under SpecProcess *)

\* the self-time intervals of every span, as the store holds them
SelfTimes(st) == [s \in 1..Len(st.spans) |-> st.spans[s].self_time]

\* the running self-time intervals of span s: thread -> start
RunningOf(st, s) ==
    [t \in {u \in Threads : <<s, u>> \in DOMAIN st.self_time_started} |->
        st.self_time_started[<<s, t>>]]

\* C1: once the Start for external id X has been applied (X is in
\* active_ids), every record that was deferred into queued_rows[X] has been
\* re-processed and queued_rows[X] is empty.
C1_QueueDrainedAtStart ==
    \A x \in DOMAIN active_ids :
        x \notin DOMAIN queued_rows \/ queued_rows[x] = <<>>

\* C2: an Exit that removes a span from position k below the top of the
\* thread's stack leaves the frames above it, sets the running self-time of
\* the new top of the stack to the Exit's timestamp, and starts no running
\* self-time interval for a span below the top.
C2_MisnestedExitResumesTop ==
    \A x \in DOMAIN active_ids, t \in DOMAIN thread_stacks :
        LET stack == thread_stacks[t]
            k == TopmostPosition(stack, active_ids[x])
            after == process(State, ExitRow(now + 1, x, t))
            stack2 == after.thread_stacks[t]
            top == Last(stack2)
        IN (k # 0 /\ k < Len(stack)) =>
            /\ stack2 = RemoveAt(stack, k)
            /\ <<top, t>> \in DOMAIN after.self_time_started
            /\ after.self_time_started[<<top, t>>] = now + 1
            /\ \A j \in 1..Len(stack2) :
                  (stack2[j] # top /\ <<stack2[j], t>> \in DOMAIN after.self_time_started)
                      => <<stack2[j], t>> \in DOMAIN self_time_started

\* C7: for an external id X that is not live, Enter(X, thread) followed by
\* Start(X, no parent) ends in the same active_ids, thread_stacks,
\* self_time_started and store self-time as the Start followed by the Enter.
C7_EnterBeforeStartEquivalent ==
    \A x \in Ids \ DOMAIN active_ids, t \in Threads :
        LET enter == EnterRow(now + 1, x, t)
            start == StartRow(now, x, NoParent)
            a == process(process(State, enter), start)
            b == process(process(State, start), enter)
        IN /\ a.active_ids = b.active_ids
           /\ a.thread_stacks = b.thread_stacks
           /\ a.self_time_started = b.self_time_started
           /\ SelfTimes(a) = SelfTimes(b)

\* what the reuse of an external id always keeps: the span x denoted before
\* its End is still in the store, under an internal id other than the one x
\* denotes now, and neither an End nor a Start for x changes it
ReuseKeepsSpans ==
    \A x \in Ids : \A s \in retired[x] :
        /\ s \in 1..Len(spans)
        /\ x \in DOMAIN active_ids => active_ids[x] # s
        /\ \A p \in Ids \cup {NoParent} :
              LET ended == process(State, EndRow(now, x))
                  started == process(State, StartRow(now, x, p))
              IN /\ ended.spans[s] = spans[s]
                 /\ started.spans[s] = spans[s]
                 /\ p = NoParent \/ p \in DOMAIN active_ids =>
                        /\ started.active_ids[x] = Len(spans) + 1
                        /\ Len(started.spans) = Len(spans) + 1

\* an Enter or an Exit for x on thread t leaves span s as it is: its
\* self-time, its running intervals and its places on the stacks
Untouched(st, s, after) ==
    /\ after.spans[s] = st.spans[s]
    /\ RunningOf(after, s) = RunningOf(st, s)
    /\ \A t \in Threads : OnStack(after, s, t) <=> OnStack(st, s, t)

\* C8 as claimed: after Start(X), End(X), Start(X) the store holds both
\* spans under different internal ids, active_ids maps X to the second, and
\* an Enter or Exit for X changes nothing of the first span.
C8_ReuseAffectsOnlySecond ==
    /\ ReuseKeepsSpans
    /\ \A x \in DOMAIN active_ids : \A s \in retired[x], t \in Threads :
          /\ Untouched(State, s, process(State, EnterRow(now + 1, x, t)))
          /\ Untouched(State, s, process(State, ExitRow(now + 1, x, t)))

\* C8 as amended: the same, but an Enter or Exit for X is only known to
\* leave the first span alone on a thread whose stack does not hold the
\* first span; what it pushes or removes is the second span.
C8_ReuseKeepsFirstSpan ==
    /\ ReuseKeepsSpans
    /\ \A x \in DOMAIN active_ids : \A s \in retired[x], t \in Threads :
          LET entered == process(State, EnterRow(now + 1, x, t))
              exited == process(State, ExitRow(now + 1, x, t))
          IN /\ StackOf(entered, t) = Append(StackOf(State, t), active_ids[x])
             /\ \A i \in 1..Len(StackOf(State, t)) :
                   StackOf(State, t)[i] # active_ids[x] =>
                       \E j \in 1..Len(StackOf(exited, t)) :
                           StackOf(exited, t)[j] = StackOf(State, t)[i]
             /\ ~OnStack(State, s, t) =>
                   /\ Untouched(State, s, entered)
                   /\ Untouched(State, s, exited)

\* an external id was reused after its End and the second span was entered
C8_Witness ==
    \E x \in DOMAIN active_ids, t \in Threads :
        /\ retired[x] # {}
        /\ OnStack(State, active_ids[x], t)

\* the self-time intervals that records of thread t added to span s
IntervalsOn(s, t) ==
    LET at == {i \in 1..Len(spans[s].self_time) : thread_of[s][i] = t}
    IN [i \in at |-> spans[s].self_time[i]]

RECURSIVE TotalLength(_, _)
TotalLength(iv, at) ==
    IF at = {} THEN 0
    ELSE LET i == CHOOSE j \in at : TRUE
         IN (iv[i][2] - iv[i][1]) + TotalLength(iv, at \ {i})

\* the intervals of s on t are in order, do not overlap, and none runs backwards
Disjoint(s, t) ==
    LET iv == IntervalsOn(s, t)
    IN /\ \A i \in DOMAIN iv : iv[i][1] <= iv[i][2]
       /\ \A i, j \in DOMAIN iv : i < j => iv[i][2] <= iv[j][1]

WithinEnterExit(s, t) ==
    LET iv == IntervalsOn(s, t)
    IN /\ iv # <<>> => <<s, t>> \in DOMAIN first_enter
       /\ <<s, t>> \in DOMAIN last_exit =>
              /\ <<s, t>> \in DOMAIN first_enter
              /\ TotalLength(iv, DOMAIN iv) <= last_exit[<<s, t>>] - first_enter[<<s, t>>]

\* C10 as claimed: with non-decreasing timestamps, the self-time intervals
\* of a span S on a thread T do not overlap, have start <= end, and their
\* total length is at most S's last Exit on T minus S's first Enter on T.
C10_SelfTimeWithinEnterExit ==
    \A s \in 1..Len(spans), t \in Threads :
        Disjoint(s, t) /\ WithinEnterExit(s, t)

\* C10 as amended: the bound on the total length holds whenever S is not
\* on T's stack (after its Exit S can be entered again, and its self-time
\* then grows until the next Exit).
C10_SelfTimeWithinEnterExitOffStack ==
    \A s \in 1..Len(spans), t \in Threads :
        /\ Disjoint(s, t)
        /\ ~OnStack(State, s, t) =>
              /\ IntervalsOn(s, t) # <<>> => <<s, t>> \in DOMAIN last_exit
              /\ WithinEnterExit(s, t)

\* a span that left the stack with two self-time intervals on the thread
C10_Witness ==
    \E s \in 1..Len(spans), t \in Threads :
        /\ ~OnStack(State, s, t)
        /\ Cardinality(DOMAIN IntervalsOn(s, t)) >= 2
        /\ <<s, t>> \in DOMAIN last_exit

PeriodsOf(s) == IF s \in DOMAIN tops.periods THEN tops.periods[s] ELSE <<>>

\* C11: in a properly nested stream (every Enter for a live span that is
\* not on the thread's stack, every Exit for the top of the thread's stack)
\* the self-time intervals of every span are exactly the periods during
\* which it was the top of a thread's stack, the span on top is the one
\* span with a running interval, started when it came on top, and once every
\* Enter of a thread has been matched by an Exit the thread's stack is empty
\* and self_time_started holds nothing for the thread.
C11_NestedSelfTimeIsTimeOnTop ==
    tops.nested =>
        /\ \A s \in 1..Len(spans) :
            /\ Len(spans[s].self_time) = Len(PeriodsOf(s))
            /\ \A i \in 1..Len(PeriodsOf(s)) :
                /\ spans[s].self_time[i] = <<PeriodsOf(s)[i][1], PeriodsOf(s)[i][2]>>
                /\ thread_of[s][i] = PeriodsOf(s)[i][3]
        /\ \A t \in Threads :
            /\ Len(StackOf(State, t)) = tops.open[t]
            /\ {s \in 1..Len(spans) : <<s, t>> \in DOMAIN self_time_started}
                    = {TopOf(State, t)} \ {NoSpan}
            /\ TopOf(State, t) # NoSpan =>
                    self_time_started[<<TopOf(State, t), t>>] = tops.since[t]
        /\ \A key \in DOMAIN self_time_started : key[1] \in 1..Len(spans)

\* the stream of NestedRows, and the two Exits that end it: the outer span
\* was on top twice, the inner span once, and nothing is left running
C11_Witness ==
    /\ tops.nested
    /\ Len(spans) = 2
    /\ Len(spans[1].self_time) = 2
    /\ Len(spans[2].self_time) = 1
    /\ spans[1].self_time[2][1] = spans[2].self_time[1][2]
    /\ StackOf(State, 1) = <<>>
    /\ self_time_started = EmptyMap

\* C14: when the End for external id x is processed while its span has a
\* running self-time interval on thread t, an Exit for x on t processed
\* afterwards closes the interval: (start, ts of the Exit) is added to the
\* self-time of the span and the entry leaves self_time_started.
C14_ExitAfterEndClosesInterval ==
    \A x \in DOMAIN active_ids, t \in Threads :
        LET s == active_ids[x]
            ended == process(State, EndRow(now, x))
            after == process(ended, ExitRow(now + 1, x, t))
        IN <<s, t>> \in DOMAIN self_time_started =>
            /\ <<s, t>> \notin DOMAIN after.self_time_started
            /\ after.spans[s].self_time =
                    Append(spans[s].self_time, <<self_time_started[<<s, t>>], now + 1>>)

\* the records stamped ts or ts + 1 that name the external id k as the
\* parent (Start, Event) or as their own id (Enter, Exit)
RowsNaming(k, ts) ==
    {StartRow(ts, id, k) : id \in Ids}
    \cup {EventRow(ts, k)}
    \cup UNION {{EnterRow(u, k, t), ExitRow(u, k, t)} : u \in {ts, ts + 1}, t \in Threads}

\* C15: a Start or Event whose parent is not in active_ids, or an Enter or
\* Exit whose own id is not in active_ids, is appended once to the end of
\* queued_rows[awaited id]; the store, active_ids, thread_stacks,
\* self_time_started, outdated_spans and the other queues stay as they are.
\* (Stated for every state in which a record is still to come, and every
\* record that can come.)
C15_DeferralChangesNothingElse ==
    held_rows < MaxRows =>
    \A k \in Ids \ DOMAIN active_ids :
        LET queue == IF k \in DOMAIN queued_rows THEN queued_rows[k] ELSE <<>>
        IN \A row \in RowsNaming(k, now) :
            process(State, row) =
                [State EXCEPT !.queued_rows = Insert(queued_rows, k, Append(queue, row))]

\* two records wait for the same id behind each other, next to a span that
\* is on a stack with a running interval
C15_Witness ==
    /\ \E k \in DOMAIN queued_rows :
            /\ Len(queued_rows[k]) >= 2
            /\ k \notin DOMAIN active_ids
            /\ queued_rows[k][1] # queued_rows[k][2]
    /\ spans # <<>>
    /\ self_time_started # EmptyMap

RunningOn(t) == {key[1] : key \in {k \in DOMAIN self_time_started : k[2] = t}}

\* C18: after any sequence of records, for every thread the spans with a
\* running self-time interval on it are exactly the top of the thread's
\* stack when the stack is not empty, and none otherwise.
C18_RunningIsTopOfStack ==
    \A t \in Threads : RunningOn(t) = {TopOf(State, t)} \ {NoSpan}

\* C19: every key (s, T) of self_time_started names a span s that is
\* somewhere on the stack of thread T.
C19_RunningSpanIsOnStack ==
    \A key \in DOMAIN self_time_started : OnStack(State, key[1], key[2])

\* an Exit has taken a frame from the middle of a stack: the span resumed
\* has a running interval, is on the stack, and is not its top
C19_Witness ==
    /\ last_exit # EmptyMap
    /\ \E key \in DOMAIN self_time_started :
            /\ OnStack(State, key[1], key[2])
            /\ key[1] # TopOf(State, key[2])

----------------------------------------------------------------------------
(* Properties of the reader loop, checked under Spec *)

\* C3: a viewer that holds a read guard sees the store as it was when the
\* write guard was last released, with the aggregates of every outdated
\* span recomputed: all of a batch or none of it, never a part.
C3_ViewerSeesWholeBatches ==
    readers > 0 => (spans = committed /\ stale = {} /\ pc # "process")

\* a viewer reads the store after a batch of two or more rows
C3_Witness ==
    /\ readers > 0
    /\ held_rows >= 2
    /\ Len(spans) >= 2
    /\ pc = "read"

\* C4: when the reader is about to open the file again after a read error,
\* reset() has been called once for that error: the generation is one more
\* than when the error was returned.
C4_OneResetPerReadError ==
    (pc = "open" /\ gen_at_error >= 0) => generation = gen_at_error + 1

\* C5: no more than MAX_ROWS_PER_LOCK rows are processed between taking
\* the write guard and releasing it.
C5_RowsPerLockBounded ==
    writer => held_rows <= MAX_ROWS_PER_LOCK

\* C6: when the decoder rejects the bytes at buffer[index..] with an error
\* other than "need more bytes", the reader leaves the decode loop for the
\* current buffer contents.
C6_MalformedStopsDecoding ==
    [][(pc = "decode"
        /\ take_from_bytes(SubSeq(buffer, index + 1, Len(buffer))).err = "Malformed")
       => pc' # "decode"]_vars

\* C9: whenever the reader does not hold the write guard, outdated_spans
\* is empty.
C9_OutdatedEmptyWithoutGuard ==
    ~writer => outdated_spans = {}

\* the guard has been released after a batch that made a span outdated
C9_Witness ==
    /\ ~writer
    /\ pc = "read"
    /\ \E s \in 1..Len(spans) : spans[s].self_time # <<>>

\* C12: when a session has turned a prefix of the file into rows and
\* processed them, a read error has ended it (store reset, new ReaderState),
\* and a later session has processed the same prefix again, the store holds
\* the same spans, parent links and self-time intervals as at the error,
\* however the reads of either session split the bytes into batches.
C12_ReplayGivesSameStore ==
    (pc = "read" /\ Consumed = first_pass.consumed) => spans = first_pass.spans

\* the whole nested stream processed, a read error, and the stream processed
\* again by the next session
C12_Witness ==
    /\ pc = "read"
    /\ generation > 0
    /\ Consumed = first_pass.consumed
    /\ Consumed = Len(file)
    /\ Len(trace) = Len(ProducerRows)
    /\ Len(spans) = 2
    /\ Len(spans[1].self_time) = 2

\* C13: a failed open leaves the store as it is (no reset, the generation
\* and the spans unchanged) and sends the reader to its pause, after which
\* the open is tried again; the loop never ends, so when the file can be
\* opened a session starts eventually; and the store is reset (the
\* generation changes) only after a read error, by try_read and by run.
C13_FailedOpenRetries ==
    /\ [][(pc = "open" /\ pc' = "sleep") =>
            (spans' = spans /\ stale' = stale /\ generation' = generation)]_vars
    /\ [][generation' # generation =>
            (pc \in {"reset", "reset_run"} /\ gen_at_error >= 0
             /\ generation \in {gen_at_error, gen_at_error + 1})]_vars
    /\ (pc = "sleep" ~> pc = "open")
    /\ (pc = "open" ~> pc = "read")

\* an open has failed before any session: the reader pauses, and the store
\* is in its first generation
C13_Witness ==
    /\ pc = "sleep"
    /\ gen_at_error = -1
    /\ generation = 0
    /\ file # <<>>

RECURSIVE EncodeAll(_)
EncodeAll(rs) == IF rs = <<>> THEN <<>> ELSE Encode(Head(rs)) \o EncodeAll(Tail(rs))

\* the rows the session has taken from the buffer: handed to process()
\* already, or decoded and about to be handed over
Handed == trace \o rows

\* C17: however the reads split the bytes of the file and whenever the
\* buffer is compacted, the rows handed to process() are the records of
\* the file, each once and in the order of the file; the bytes of
\* buffer[index..] are always exactly the bytes read and not yet decoded
\* (so compaction removes consumed bytes only); and when a well-formed file
\* has been read to its end, every record of it has been handed over.
C17_RowsHandedOnceInOrder ==
    /\ Len(Handed) <= now
    /\ Handed = SubSeq(ProducerRows, 1, Len(Handed))
    /\ pc \in {"read", "wait", "decode", "lock", "process"} =>
            EncodeAll(Handed) \o SubSeq(buffer, index + 1, Len(buffer))
                = SubSeq(file, 1, fpos)
    /\ (pc = "read" /\ fpos = Len(file) /\ ~Corrupted(file)) =>
            trace = SubSeq(ProducerRows, 1, now)

\* the whole stream has been handed over through a buffer that is smaller
\* than the file: it has been compacted on the way
C17_Witness ==
    /\ pc = "read"
    /\ trace = ProducerRows
    /\ fpos = Len(file)
    /\ capacity < fpos
    /\ index = Len(buffer)

\* the internal span ids the ReaderState holds
HeldIds ==
    {active_ids[x] : x \in DOMAIN active_ids}
    \cup UNION {{thread_stacks[t][i] : i \in 1..Len(thread_stacks[t])} :
                    t \in DOMAIN thread_stacks}
    \cup {key[1] : key \in DOMAIN self_time_started}
    \cup outdated_spans

\* C20: over all opens, reads, read errors and resets, every internal span
\* id held in the ReaderState (a value of active_ids, an element of a thread
\* stack, a key of self_time_started, a member of outdated_spans) is the id
\* of a span of the store as it is now; when the store has been reset no
\* ReaderState is left, and the file is opened (a new ReaderState made) only
\* on a store without spans.
C20_HeldIdsAreInStore ==
    /\ HeldIds \subseteq 1..Len(spans)
    /\ pc \in {"reset_run", "sleep", "open"} => (HeldIds = {} /\ spans = <<>>)

\* in a session after a reset the ReaderState holds ids of spans of the new
\* generation
C20_Witness ==
    /\ generation > 0
    /\ pc = "read"
    /\ DOMAIN active_ids = Ids
    /\ \E t \in DOMAIN thread_stacks : Len(thread_stacks[t]) = 2
    /\ self_time_started # EmptyMap

====
